---- MODULE Spec2Model ----
(***************************************************************************)
(* bagpy.bagreader: extraction of the topics of a recorded bag into one    *)
(* CSV artifact per topic (laser_data, vel_data, std_data, odometry_data,  *)
(* wrench_data, clock_data) and the operations that are not implemented.   *)
(*                                                                         *)
(* Strings that the code manipulates character by character (topic names,  *)
(* paths) are sequences of one-character strings.  A CSV cell is a record  *)
(* [tag, s, n, f]: a string, a number, a float n + f*1e-9 or None.         *)
(***************************************************************************)
EXTENDS Integers, Sequences, FiniteSets, TLC

\* ------------------------------------------------------------------ bounds
\* Largest number of topics in the topic inventory of the bag.
MaxTopics == 2
\* Largest number of records in the bag.
MaxMsgs == 3

\* ------------------------------------------------------- program constants
\* Number of range columns and of intensity columns of a laser row.
Capacity == 182
\* 1 / 1e-9: nanoseconds per second in t.secs + t.nsecs*1e-9.
Giga == 1000000000

\* -------------------------------------------------------------- CSV cells
Str(x) == [tag |-> "str", s |-> x, n |-> 0, f |-> 0]
Num(v) == [tag |-> "num", s |-> "", n |-> v, f |-> 0]
Float(w, fr) == [tag |-> "float", s |-> "", n |-> w, f |-> fr]
None == [tag |-> "None", s |-> "", n |-> 0, f |-> 0]

\* ------------------------------------------------------------ the bag file
\* Topic names a bag may hold (rosbag stores any string as a topic name).
TopicNames ==
    { <<"/", "a", "/", "b">>, <<"/", "a", "-", "b">>, <<"/", "c">> }

\* Orders in which the inventory lists the topics (a dictionary's key order,
\* not sorted).
NameOrders ==
    { << <<"/", "a", "/", "b">>, <<"/", "a", "-", "b">>, <<"/", "c">> >>,
      << <<"/", "c">>, <<"/", "a", "/", "b">>, <<"/", "a", "-", "b">> >> }

\* Message types of the recorded topics, by their ROS names (std_msgs has
\* Float64 and UInt8 among its one-value types).
MsgTypes ==
    { "sensor_msgs/LaserScan", "geometry_msgs/Twist", "std_msgs/Float64",
      "std_msgs/UInt8", "nav_msgs/Odometry", "geometry_msgs/Wrench",
      "rosgraph_msgs/Clock", "sensor_msgs/Image" }

Min(a, b) == IF a < b THEN a ELSE b

\* The topic inventories of the bags considered: up to MaxTopics topics with
\* distinct names, each of any message type.
TopicTables ==
    UNION { { [j \in 1..n |-> [Topics |-> o[j], Types |-> ty[j]]] :
                ty \in [1..n -> MsgTypes] } :
            o \in NameOrders, n \in 0..Min(MaxTopics, Cardinality(TopicNames)) }

\* Time stamp of the k-th record of the bag: 10.0, 10.5, 11.0, 11.5, ...
\* (rosbag delivers records in time order).
Stamp(k) == [secs |-> 10 + (k - 1) \div 2, nsecs |-> ((k - 1) % 2) * 500000000]

Vec(a, b, c) == [x |-> a, y |-> b, z |-> c]

\* Lengths of the ranges and intensities arrays of the k-th record.
RangesLen(k) ==
    CASE k = 1 -> Capacity
      [] k = 2 -> 1
      [] k = 3 -> Capacity + 1
      [] k = 4 -> 0
      [] OTHER -> 2

IntensLen(k) ==
    CASE k = 1 -> Capacity
      [] k = 2 -> 0
      [] k = 3 -> 0
      [] k = 4 -> Capacity + 1
      [] OTHER -> 2

Hdr(k) == [seq |-> k, frame_id |-> "base"]

\* The message of type ty recorded as the k-th record of the bag.
MakeMsg(ty, k) ==
    CASE ty = "geometry_msgs/Twist" ->
           [linear |-> CASE k = 1 -> Vec(1, 0, 0)
                         [] k = 2 -> Vec(2, 0, 0)
                         [] k = 3 -> Vec(0, 0, 0)
                         [] OTHER -> Vec(k, k + 1, k + 2),
            angular |-> CASE k = 1 -> Vec(0, 0, 0)
                          [] k = 2 -> Vec(0, 0, 1)
                          [] k = 3 -> Vec(0, 0, 0)
                          [] OTHER -> Vec(k + 3, k + 4, k + 5)]
      [] ty = "sensor_msgs/LaserScan" ->
           [header |-> Hdr(k),
            angle_min |-> 1, angle_max |-> 2, angle_increment |-> 3,
            time_increment |-> 4, scan_time |-> 5,
            range_min |-> 6, range_max |-> 7,
            ranges |-> [p \in 1..RangesLen(k) |-> 1000 * k + p],
            intensities |-> [p \in 1..IntensLen(k) |-> 2000 * k + p]]
      [] ty = "nav_msgs/Odometry" ->
           [header |-> Hdr(k), child_frame_id |-> "odom",
            pose |-> [pose |-> [position |-> Vec(k, k + 1, k + 2),
                                orientation |-> [x |-> 0, y |-> 0, z |-> k, w |-> 1]]],
            twist |-> [twist |-> [linear |-> Vec(k + 3, k + 4, k + 5),
                                  angular |-> Vec(k + 6, k + 7, k + 8)]]]
      [] ty = "geometry_msgs/Wrench" ->
           [force |-> Vec(k, k + 1, k + 2), torque |-> Vec(k + 3, k + 4, k + 5)]
      [] ty = "rosgraph_msgs/Clock" ->
           [clock |-> Stamp(k)]
      [] OTHER ->
           [data |-> 10 * k]

\* The bags with inventory tt: n records, dealt to the topics in turn
\* starting at topic off + 1.
Bags(tt) ==
    IF Len(tt) = 0
    THEN { <<>> }
    ELSE { [k \in 1..n |->
              LET e == tt[((k - 1 + off) % Len(tt)) + 1]
              IN  [topic |-> e.Topics, t |-> Stamp(k), msg |-> MakeMsg(e.Types, k)]] :
           n \in 0..MaxMsgs, off \in 0..(Len(tt) - 1) }

\* ------------------------------------------------------------- the reader
\* reader.read_messages(topics=topic, start_time=None, end_time=None): the
\* records of the topic, in the bag's order.
read_messages_all(b, topic) == b

read_messages(b, topic) == SelectSeq(b, LAMBDA r : r.topic = topic)

\* str.replace(old, new) for one-character old and new.
replace(s, old, new) == [j \in 1..Len(s) |-> IF s[j] = old THEN new ELSE s[j]]

bagfile == <<"r", ".", "b", "a", "g">>

\* self.datafolder = bagfile[0:-4]
datafolder == SubSeq(bagfile, 1, Len(bagfile) - 4)

\* self.datafolder + "/" + topic.replace("/", "-") + ".csv"
file_to_write(topic) ==
    datafolder \o <<"/">> \o replace(topic, "/", "-") \o <<".", "c", "s", "v">>

AllPaths == { file_to_write(nm) : nm \in TopicNames }

\* ------------------------------------------------------------ the schemas
ExtractOps ==
    { "laser_data", "vel_data", "std_data", "odometry_data", "wrench_data",
      "clock_data" }

UnimplementedOps ==
    { "compressed_images", "pointcloud_data", "animate_laser",
      "animate_pointcloud" }

\* The message types an operation looks for (type_to_look), as written.
type_to_look(o) ==
    CASE o = "laser_data" -> { "sensor_msgs/LaserScan" }
      [] o = "vel_data" -> { "geometry_msgs/Twist" }
      [] o = "std_data" ->
           { "std_msgs/Bool", "'std_msgs/Byte", "std_msgs/Float32",
             "std_msgs/Float64", "std_msgs/Int8", "std_msgs/Int16",
             "std_msgs/Int32", "std_msgs/Uint8", "std_msgs/Uint16",
             "std_msgs/Uint32" }
      [] o = "odometry_data" -> { "nav_msgs/Odometry" }
      [] o = "wrench_data" -> { "geometry_msgs/Wrench" }
      [] o = "clock_data" -> { "rosgraph_msgs/Clock" }
      [] OTHER -> {}

\* The column "ranges_" + str(p), "intensities_" + str(p).
NumberedColumn(prefix, p) == [tag |-> "str", s |-> prefix, n |-> p, f |-> 0]

Names(l) == [j \in 1..Len(l) |-> Str(l[j])]

\* column_names of each operation: the header line of its artifacts.
column_names(o) ==
    CASE o = "laser_data" ->
           Names(<<"Time", "header.seq", "header.frame_id", "angle_min",
                   "angle_max", "angle_increment", "time_increment",
                   "scan_time", "range_min", "range_max">>)
           \o [p \in 1..Capacity |-> NumberedColumn("ranges_", p - 1)]
           \o [p \in 1..Capacity |-> NumberedColumn("intensities_", p - 1)]
      [] o = "vel_data" ->
           Names(<<"Time", "linear.x", "linear.y", "linear.z", "angular.x",
                   "angular.y", "angular.z">>)
      [] o = "std_data" -> Names(<<"Time", "data">>)
      [] o = "odometry_data" ->
           Names(<<"Time", "header.seq", "header.frame_id", "child_frame_id",
                   "pose.x", "pose.y", "pose.z", "orientation.x",
                   "orientation.y", "orientation.z", "orientation.w",
                   "linear.x", "linear.y", "linear.z", "angular.x",
                   "angular.y", "angular.z">>)
      [] o = "wrench_data" ->
           Names(<<"Time", "force.x", "force.y", "force.z", "torque.x",
                   "torque.y", "torque.z">>)
      [] o = "clock_data" -> Names(<<"Time", "clock.secs", "clock.nsecs">>)
      [] OTHER -> <<>>

\* t.secs + t.nsecs*1e-9, as whole seconds and nanoseconds.
TimeOf(t) == Float(t.secs + t.nsecs \div Giga, t.nsecs % Giga)

\* ranges = [None]*182, then ranges[ir] = ran for every element: slot p
\* holds element p, the slots beyond the array stay None.  (Called only for
\* arrays of at most Capacity elements; see laser_raises.)
FillSlots_zero(arr) ==
    [p \in 1..Capacity |-> IF p <= Len(arr) THEN Num(arr[p]) ELSE Num(0)]

FillSlots(arr) ==
    [p \in 1..Capacity |-> IF p <= Len(arr) THEN Num(arr[p]) ELSE None]

\* ranges[ir] = ran with ir >= 182 is an assignment past the end of the
\* list: IndexError.
laser_raises(msg) ==
    Len(msg.ranges) > Capacity \/ Len(msg.intensities) > Capacity

laser_row(msg, t) ==
    << TimeOf(t), Num(msg.header.seq), Str(msg.header.frame_id),
       Num(msg.angle_min), Num(msg.angle_max), Num(msg.angle_increment),
       Num(msg.time_increment), Num(msg.scan_time), Num(msg.range_min),
       Num(msg.range_max) >>
    \o FillSlots(msg.ranges) \o FillSlots(msg.intensities)

vel_row_swapped(msg, t) ==
    << TimeOf(t), Num(msg.angular.x), Num(msg.angular.y), Num(msg.angular.z),
       Num(msg.linear.x), Num(msg.linear.y), Num(msg.linear.z) >>

vel_row(msg, t) ==
    << TimeOf(t), Num(msg.linear.x), Num(msg.linear.y), Num(msg.linear.z),
       Num(msg.angular.x), Num(msg.angular.y), Num(msg.angular.z) >>

std_row(msg, t) == << TimeOf(t), Num(msg.data) >>

odometry_row(msg, t) ==
    << TimeOf(t), Num(msg.header.seq), Str(msg.header.frame_id),
       Str(msg.child_frame_id),
       Num(msg.pose.pose.position.x), Num(msg.pose.pose.position.y),
       Num(msg.pose.pose.position.z),
       Num(msg.pose.pose.orientation.x), Num(msg.pose.pose.orientation.y),
       Num(msg.pose.pose.orientation.z), Num(msg.pose.pose.orientation.w),
       Num(msg.twist.twist.linear.x), Num(msg.twist.twist.linear.y),
       Num(msg.twist.twist.linear.z) >>

wrench_row(msg, t) ==
    << TimeOf(t), Num(msg.force.x), Num(msg.force.y), Num(msg.force.z),
       Num(msg.torque.x), Num(msg.torque.y), Num(msg.torque.z) >>

clock_row(msg, t) == << TimeOf(t), Num(msg.clock.secs), Num(msg.clock.nsecs) >>

\* new_row of each operation for one record.
new_row(o, msg, t) ==
    CASE o = "laser_data" -> laser_row(msg, t)
      [] o = "vel_data" -> vel_row(msg, t)
      [] o = "std_data" -> std_row(msg, t)
      [] o = "odometry_data" -> odometry_row(msg, t)
      [] o = "wrench_data" -> wrench_row(msg, t)
      [] o = "clock_data" -> clock_row(msg, t)

\* Building new_row raises instead of yielding a row.
row_raises(o, msg) == o = "laser_data" /\ laser_raises(msg)

\* self.topic_table[self.topic_table['Types'] == type_to_look] (isin for
\* std_data): the inventory's rows of the wanted types, in inventory order.
table_rows_any(tt, types) == tt

table_rows(tt, types) == SelectSeq(tt, LAMBDA e : e.Types \in types)

\* ---------------------------------------------------------------- state
VARIABLES
    topic_table,   \* self.topic_table: the inventory, rows [Topics, Types]
    bag,           \* the records of self.reader, in the bag's order
    files,         \* the data folder: path -> [exists, lines]
    pc,            \* position of the running call
    op,            \* the operation called ("" before any call)
    i,             \* index of the for loop over table_rows (from 1)
    pos,           \* number of records of the current topic consumed
    csvlist,       \* the list of paths built by the call
    open_sinks,    \* paths of the files currently open
    retval,        \* <<v>> once the call has returned v, <<>> otherwise
    error,         \* the exception the call raised ("" when none)
    log,           \* sink operations of the call, in order
    args,          \* the arguments of the call (kwargs; df and inplace)
    frames         \* the tables (DataFrame objects) alive, by identity 1, 2, ...

vars ==
    << topic_table, bag, files, pc, op, i, pos, csvlist, open_sinks, retval,
       error, log, args, frames >>

NoFile == [exists |-> FALSE, lines |-> <<>>]

\* An artifact left in the data folder by an earlier run.
StaleFile == [exists |-> TRUE, lines |-> << <<Str("stale")>> >>]

\* open(file_to_write, "w"): the file exists and is empty.
open_a(file) == [exists |-> TRUE, lines |-> file.lines]

open_w(file) == [exists |-> TRUE, lines |-> <<>>]

\* writer.writerow(row): one more line.
writerow(file, row) == [file EXCEPT !.lines = Append(@, row)]

\* csvlist.append(file_to_write)
csvlist_prepend(l, path) == <<path>> \o l

csvlist_append(l, path) == Append(l, path)

\* Locals of the running call.
rows_now == table_rows(topic_table, type_to_look(op))

topics_to_read == [j \in 1..Len(rows_now) |-> rows_now[j].Topics]

path_now == file_to_write(topics_to_read[i])

msgs_now == read_messages(bag, topics_to_read[i])

Event(e, path) == [ev |-> e, path |-> path]

\* **kwargs of a call without keyword arguments: no time window.
NoKwargs == [tstart |-> <<>>, tend |-> <<>>]

\* After construction: the inventory and the records of the bag are fixed;
\* the data folder exists already and holds one artifact of an earlier run,
\* or has just been created.
InitFiles ==
    [p \in AllPaths |->
       IF p = file_to_write(<<"/", "a", "/", "b">>) THEN StaleFile ELSE NoFile]

Init ==
    /\ topic_table \in TopicTables
    /\ bag \in Bags(topic_table)
    /\ files = InitFiles
    /\ pc = "idle"
    /\ op = ""
    /\ i = 0
    /\ pos = 0
    /\ csvlist = <<>>
    /\ open_sinks = {}
    /\ retval = <<>>
    /\ error = ""
    /\ log = <<>>
    /\ args = NoKwargs
    /\ frames = <<>>

\* An extraction operation is called: table_rows, column_names, csvlist = [].
CallWith(o, kwargs) ==
    /\ pc = "idle"
    /\ op' = o
    /\ args' = kwargs
    /\ i' = 1
    /\ csvlist' = <<>>
    /\ pc' = "loop"
    /\ UNCHANGED << frames, topic_table, bag, files, pos, open_sinks, retval, error, log >>

\* The call of the documentation's examples: b.vel_data().
Call(o) == CallWith(o, NoKwargs)

\* with open(file_to_write, "w", newline='') as f
OpenSink ==
    /\ pc = "loop"
    /\ i <= Len(rows_now)
    /\ files' = [files EXCEPT ![path_now] = open_w(@)]
    /\ open_sinks' = open_sinks \cup { path_now }
    /\ log' = Append(log, Event("open", path_now))
    /\ pos' = 0
    /\ pc' = "header"
    /\ UNCHANGED << args, frames, topic_table, bag, op, i, csvlist, retval, error >>

\* open() raises (no data folder, no permission): the call ends with it.
OpenFail ==
    /\ pc = "loop"
    /\ i <= Len(rows_now)
    /\ error' = "OSError"
    /\ log' = Append(log, Event("open failed", path_now))
    /\ pc' = "raised"
    /\ UNCHANGED << args, frames, topic_table, bag, files, op, i, pos, csvlist, open_sinks, retval >>

\* writer.writerow(column_names)
WriteHeader ==
    /\ pc = "header"
    /\ files' = [files EXCEPT ![path_now] = writerow(@, column_names(op))]
    /\ log' = Append(log, Event("header", path_now))
    /\ pc' = "rows"
    /\ UNCHANGED << args, frames, topic_table, bag, op, i, pos, csvlist, open_sinks, retval, error >>

\* The next record of the topic: new_row is built and written.
WriteRow ==
    /\ pc = "rows"
    /\ pos < Len(msgs_now)
    /\ ~row_raises(op, msgs_now[pos + 1].msg)
    /\ files' = [files EXCEPT ![path_now] =
                    writerow(@, new_row(op, msgs_now[pos + 1].msg, msgs_now[pos + 1].t))]
    /\ log' = Append(log, Event("row", path_now))
    /\ pos' = pos + 1
    /\ UNCHANGED << args, frames, topic_table, bag, pc, op, i, csvlist, open_sinks, retval, error >>

\* Building new_row raises: the with block closes the file and the call
\* ends with the exception.
RowRaises ==
    /\ pc = "rows"
    /\ pos < Len(msgs_now)
    /\ row_raises(op, msgs_now[pos + 1].msg)
    /\ open_sinks' = open_sinks \ { path_now }
    /\ log' = Append(log, Event("close", path_now))
    /\ error' = "IndexError"
    /\ pc' = "raised"
    /\ UNCHANGED << args, frames, topic_table, bag, files, op, i, pos, csvlist, retval >>

\* A write to the open file fails (disk full, I/O error): the with block
\* closes the file and the call ends with the exception.
WriteFail ==
    /\ pc \in { "header", "rows" }
    /\ open_sinks' = open_sinks \ { path_now }
    /\ log' = Append(log, Event("close", path_now))
    /\ error' = "OSError"
    /\ pc' = "raised"
    /\ UNCHANGED << args, frames, topic_table, bag, files, op, i, pos, csvlist, retval >>

CloseSink_leak ==
    /\ pc = "rows"
    /\ pos = Len(msgs_now)
    /\ log' = Append(log, Event("close", path_now))
    /\ pc' = "closed"
    /\ UNCHANGED << args, frames, topic_table, bag, files, op, i, pos, csvlist, open_sinks, retval, error >>

\* The records of the topic are exhausted: the with block closes the file.
CloseSink ==
    /\ pc = "rows"
    /\ pos = Len(msgs_now)
    /\ open_sinks' = open_sinks \ { path_now }
    /\ log' = Append(log, Event("close", path_now))
    /\ pc' = "closed"
    /\ UNCHANGED << args, frames, topic_table, bag, files, op, i, pos, csvlist, retval, error >>

\* csvlist.append(file_to_write), and on to the next topic.
AppendPath ==
    /\ pc = "closed"
    /\ csvlist' = csvlist_append(csvlist, path_now)
    /\ log' = Append(log, Event("append", path_now))
    /\ i' = i + 1
    /\ pc' = "loop"
    /\ UNCHANGED << args, frames, topic_table, bag, files, op, pos, open_sinks, retval, error >>

\* return csvlist
Return ==
    /\ pc = "loop"
    /\ i > Len(rows_now)
    /\ retval' = << csvlist >>
    /\ pc' = "returned"
    /\ UNCHANGED << args, frames, topic_table, bag, files, op, i, pos, csvlist, open_sinks, error, log >>

\* compressed_images, pointcloud_data, animate_laser, animate_pointcloud:
\* raise NotImplementedError("To be implemented")
Unimplemented_pass(o) ==
    /\ pc = "idle"
    /\ op' = o
    /\ retval' = << <<>> >>
    /\ pc' = "returned"
    /\ UNCHANGED << args, frames, topic_table, bag, files, i, pos, csvlist, open_sinks, error, log >>

Unimplemented(o) ==
    /\ pc = "idle"
    /\ op' = o
    /\ error' = "NotImplementedError"
    /\ pc' = "raised"
    /\ UNCHANGED << args, frames, topic_table, bag, files, i, pos, csvlist, open_sinks, retval, log >>

Next ==
    \/ \E o \in ExtractOps : Call(o)
    \/ OpenSink
    \/ OpenFail
    \/ WriteHeader
    \/ WriteRow
    \/ RowRaises
    \/ WriteFail
    \/ CloseSink
    \/ AppendPath
    \/ Return
    \/ \E o \in UnimplementedOps : Unimplemented(o)

Spec == Init /\ [][Next]_vars

\* -------------------------------------------------- calls with a time window
\* **kwargs of a call that supplies tstart and tend.
Window(a, b) == [tstart |-> << a >>, tend |-> << b >>]

\* The keyword arguments of the calls considered: none, the window of the
\* second record's time alone, and a window holding every record.
KwargsGiven == { NoKwargs, Window(Stamp(2), Stamp(2)), Window(Stamp(1), Stamp(MaxMsgs)) }

\* The extraction methods called with keyword arguments.  The methods bind
\* kwargs and never read it; the sink steps are those of Next.
NextWindow ==
    \/ \E o \in ExtractOps, kwargs \in KwargsGiven : CallWith(o, kwargs)
    \/ OpenSink
    \/ OpenFail
    \/ WriteHeader
    \/ WriteRow
    \/ RowRaises
    \/ WriteFail
    \/ CloseSink
    \/ AppendPath
    \/ Return

SpecWindow == Init /\ [][NextWindow]_vars

\* ------------------------------------------------------------- timeindex
\* Largest number of rows of a table given to timeindex.
MaxRows == 3

\* A table (pandas DataFrame): the column names, the name and the values
\* of the index, and the rows, each a sequence of cells aligned with the
\* columns.  A table read from an artifact has the default index 0, 1, ...
Frame(cols, iname, idx, rws) ==
    [columns |-> cols, index_name |-> iname, index |-> idx, rows |-> rws]

\* Values of the Time column (not necessarily in time order).
TimeValues == { Float(10, 0), Float(10, 500000000), Float(11, 0) }

\* The tables given to timeindex: a Time column, alone or followed by a
\* data column whose values tell the rows apart.
TimeColumns == UNION { [1..n -> TimeValues] : n \in 0..MaxRows }

InputFrames ==
    UNION { { Frame(<<"Time">>, "", [r \in 1..Len(tv) |-> Num(r - 1)],
                    [r \in 1..Len(tv) |-> << tv[r] >>]),
              Frame(<<"Time", "data">>, "", [r \in 1..Len(tv) |-> Num(r - 1)],
                    [r \in 1..Len(tv) |-> << tv[r], Num(10 * r) >>]) } :
            tv \in TimeColumns }

\* The names bound in the module's global scope: its imports, the class and
\* the two functions.  (No Python builtin is called dateparse.)
module_globals ==
    { "subprocess", "yaml", "os", "time", "BytesIO", "csv", "rosbag", "String",
      "Header", "Twist", "Pose", "PoseStamped", "Path", "Odometry", "Point",
      "LaserScan", "np", "pd", "plt", "sea", "bagreader", "find", "timeindex" }

\* Position of a column in a table (0 when the table has no such column).
ColumnAt(fr, name) ==
    IF \E c \in 1..Len(fr.columns) : fr.columns[c] = name
    THEN CHOOSE c \in 1..Len(fr.columns) : fr.columns[c] = name
    ELSE 0

\* fr[name]: the values of a column.
column(fr, name) == [r \in 1..Len(fr.rows) |-> fr.rows[r][ColumnAt(fr, name)]]

\* fr[name] = vals: the column is replaced where it stands, or added last.
set_column(fr, name, vals) ==
    IF ColumnAt(fr, name) > 0
    THEN [fr EXCEPT !.rows =
            [r \in 1..Len(fr.rows) |-> [fr.rows[r] EXCEPT ![ColumnAt(fr, name)] = vals[r]]]]
    ELSE [fr EXCEPT !.columns = Append(@, name),
                    !.rows = [r \in 1..Len(fr.rows) |-> Append(fr.rows[r], vals[r])]]

Without(sq, c) == [j \in 1..(Len(sq) - 1) |-> IF j < c THEN sq[j] ELSE sq[j + 1]]

\* fr.drop([name], axis = 1)
drop(fr, name) ==
    [fr EXCEPT !.columns = Without(@, ColumnAt(fr, name)),
               !.rows = [r \in 1..Len(fr.rows) |-> Without(fr.rows[r], ColumnAt(fr, name))]]

\* fr.set_index(name): the column becomes the index and leaves the columns.
set_index(fr, name) ==
    [drop(fr, name) EXCEPT !.index_name = name, !.index = column(fr, name)]

\* pd.to_datetime(x, unit='s'): the instant x seconds after the epoch.
to_datetime(cell) == [tag |-> "datetime", s |-> "", n |-> cell.n, f |-> cell.f]

\* The state of the extraction side, which timeindex does not touch.
extract_vars ==
    << topic_table, bag, files, i, pos, csvlist, open_sinks, log >>

\* timeindex(df, inplace): df is table 1.  Line 764 evaluates the global
\* name dateparse before anything is indexed; a name bound nowhere raises
\* NameError.  The value of the ClockTime column matters to nothing, for the
\* column is dropped before the table is returned.
timeindex(inplace) ==
    /\ pc = "idle"
    /\ Len(frames) = 1
    /\ op' = "timeindex"
    /\ args' = [df |-> frames[1], inplace |-> inplace]
    /\ LET newdf == IF inplace THEN 1 ELSE 2
           h1 == IF inplace THEN frames ELSE Append(frames, frames[1])
           h2 == [h1 EXCEPT ![newdf] = set_column(@, "Time", column(frames[1], "Time"))]
           h3 == [h2 EXCEPT ![newdf] =
                     set_column(@, "ClockTime",
                                [r \in 1..Len(h2[newdf].rows) |-> Str("dateparse")])]
           Time == [r \in 1..Len(h3[newdf].rows) |-> to_datetime(column(h3[newdf], "Time")[r])]
           h4 == [h3 EXCEPT ![newdf] = set_column(@, "Clock", Time)]
       IN  IF "dateparse" \notin module_globals
           THEN /\ frames' = h2
                /\ error' = "NameError"
                /\ retval' = <<>>
                /\ pc' = "raised"
           ELSE /\ IF inplace
                   THEN /\ frames' = [h4 EXCEPT ![1] = drop(set_index(@, "Clock"), "ClockTime")]
                        /\ retval' = << 1 >>
                   ELSE /\ frames' = h4 \o << set_index(h4[2], "Clock"),
                                              drop(set_index(h4[2], "Clock"), "ClockTime") >>
                        /\ retval' = << 4 >>
                /\ error' = ""
                /\ pc' = "returned"
    /\ UNCHANGED extract_vars

\* A table with a Time column has been read; no extraction is running.
InitIndex ==
    /\ topic_table = <<>>
    /\ bag = <<>>
    /\ files = InitFiles
    /\ pc = "idle"
    /\ op = ""
    /\ i = 0
    /\ pos = 0
    /\ csvlist = <<>>
    /\ open_sinks = {}
    /\ retval = <<>>
    /\ error = ""
    /\ log = <<>>
    /\ args = NoKwargs
    /\ frames \in { << fr >> : fr \in InputFrames }

NextIndex == \E inplace \in BOOLEAN : timeindex(inplace)

SpecIndex == InitIndex /\ [][NextIndex]_vars

\* ------------------------------------------------- vocabulary of the claims
\* The inventory's topics of the type the operation o asks for.
MatchingTopics(o) == SelectSeq(topic_table, LAMBDA e : e.Types \in type_to_look(o))

\* The records the bag holds for a topic, in the order the bag delivers them.
RecordsOf(topic) == SelectSeq(bag, LAMBDA r : r.topic = topic)

\* The topic the running call is extracting (while a sink is in use).
InTopic == pc \in { "header", "rows", "closed" }

CurTopic == MatchingTopics(op)[i].Topics

CurFile == files[file_to_write(CurTopic)]

DataRows(file) == SubSeq(file.lines, 2, Len(file.lines))

\* Paths whose header the running call has written.
Written == { log[k].path : k \in { n \in 1..Len(log) : log[n].ev = "header" } }

\* --------------------------------------------------------------------- C1
\* C1: every row of every artifact an extraction operation writes has as
\* many fields as the header line of that artifact.
C1_NoRaggedRows ==
    \A p \in Written :
        \A j \in 1..Len(files[p].lines) :
            Len(files[p].lines[j]) = Len(column_names(op))

\* --------------------------------------------------------------------- C2
\* C2: laser_data does not fail on a record whose ranges or intensities
\* array has more than 182 elements: the row is written with the first 182
\* elements of each array in its 182 + 182 slots.
C2_LongArraysTruncated ==
    op = "laser_data" =>
        /\ error # "IndexError"
        /\ InTopic /\ pc # "header" =>
             /\ Len(DataRows(CurFile)) = pos
             /\ \A j \in 1..pos :
                  LET m == RecordsOf(CurTopic)[j].msg
                      row == DataRows(CurFile)[j]
                  IN  (Len(m.ranges) > Capacity \/ Len(m.intensities) > Capacity) =>
                        /\ Len(row) = 10 + Capacity + Capacity
                        /\ \A q \in 1..Capacity :
                             /\ q <= Len(m.ranges) => row[10 + q] = Num(m.ranges[q])
                             /\ q <= Len(m.intensities) =>
                                  row[10 + Capacity + q] = Num(m.intensities[q])

\* --------------------------------------------------------------------- C3
\* C3: in every row laser_data writes, for a record whose ranges (resp.
\* intensities) array has n <= 182 elements, the 182 range (resp. intensity)
\* slots hold the n elements in order followed by 182 - n None markers.
C3_ShortArraysPadded ==
    (op = "laser_data" /\ InTopic /\ pc # "header") =>
        /\ Len(DataRows(CurFile)) = pos
        /\ \A j \in 1..pos :
             LET m == RecordsOf(CurTopic)[j].msg
                 row == DataRows(CurFile)[j]
             IN  /\ Len(row) = 10 + Capacity + Capacity
                 /\ Len(m.ranges) <= Capacity =>
                      \A q \in 1..Capacity :
                          row[10 + q] =
                              IF q <= Len(m.ranges) THEN Num(m.ranges[q]) ELSE None
                 /\ Len(m.intensities) <= Capacity =>
                      \A q \in 1..Capacity :
                          row[10 + Capacity + q] =
                              IF q <= Len(m.intensities)
                              THEN Num(m.intensities[q]) ELSE None

\* A laser topic whose first record fills all 182 range slots and whose
\* second record has one range and no intensity has been written: the
\* second row has None in range slot 2 and in every intensity slot.
C3_Witness ==
    /\ op = "laser_data" /\ pc = "closed" /\ pos = 2
    /\ Len(RecordsOf(CurTopic)[1].msg.ranges) = Capacity
    /\ Len(RecordsOf(CurTopic)[2].msg.ranges) = 1
    /\ Len(RecordsOf(CurTopic)[2].msg.intensities) = 0
    /\ DataRows(CurFile)[1][10 + Capacity] # None
    /\ DataRows(CurFile)[2][10 + 2] = None
    /\ DataRows(CurFile)[2][10 + Capacity + 1] = None

\* --------------------------------------------------------------------- C4
\* C4: an artifact the call has opened holds, once anything is written to
\* it, the operation's column list as its first line and nowhere else; when
\* a topic's sink is closed after the last record, and for every returned
\* path, the header is there, and a topic without records leaves exactly
\* the header line.
C4_HeaderFirstOnce ==
    /\ \A k \in 1..Len(log) :
         log[k].ev = "open" =>
             LET L == files[log[k].path].lines
             IN  Len(L) >= 1 =>
                   /\ L[1] = column_names(op)
                   /\ \A j \in 2..Len(L) : L[j] # column_names(op)
    /\ pc = "closed" =>
         /\ Len(CurFile.lines) >= 1
         /\ Len(RecordsOf(CurTopic)) = 0 => CurFile.lines = << column_names(op) >>
    /\ pc = "returned" /\ op \in ExtractOps =>
         \A k \in 1..Len(csvlist) : Len(files[csvlist[k]].lines) >= 1

\* A call has returned after writing, over an artifact of an earlier run,
\* the artifact of a topic without records (header only) and one with rows.
C4_Witness ==
    /\ pc = "returned"
    /\ Len(csvlist) = 2
    /\ Len(files[csvlist[1]].lines) > 1
    /\ InitFiles[csvlist[2]].exists
    /\ files[csvlist[2]].lines = << column_names(op) >>

\* --------------------------------------------------------------------- C5
\* C5: while a topic is extracted its artifact holds one data row per record
\* consumed, in the order the bag delivers that topic's records (a row is
\* identified by its time cell, distinct for all records of the bag); when
\* the sink is closed the rows are all the records of the topic and of no
\* other; when the call returns, every returned artifact holds exactly the
\* records of the topic that wrote it last.
RowsMatch(file, recs) ==
    /\ Len(DataRows(file)) = Len(recs)
    /\ \A j \in 1..Len(recs) :
         DataRows(file)[j][1] = Float(recs[j].t.secs, recs[j].t.nsecs)

ScenarioRecords(recs) ==
    /\ Len(recs) = 3
    /\ recs[1].t = [secs |-> 10, nsecs |-> 0]
    /\ recs[2].t = [secs |-> 10, nsecs |-> 500000000]
    /\ recs[3].t = [secs |-> 11, nsecs |-> 0]
    /\ recs[1].msg = [linear |-> Vec(1, 0, 0), angular |-> Vec(0, 0, 0)]
    /\ recs[2].msg = [linear |-> Vec(2, 0, 0), angular |-> Vec(0, 0, 1)]
    /\ recs[3].msg = [linear |-> Vec(0, 0, 0), angular |-> Vec(0, 0, 0)]

C6_VelRows ==
    (op = "vel_data" /\ InTopic /\ pc # "header") =>
        /\ Len(DataRows(CurFile)) = pos
        /\ \A j \in 1..pos :
             LET r == RecordsOf(CurTopic)[j]
             IN  DataRows(CurFile)[j] =
                     << Float(r.t.secs, r.t.nsecs),
                        Num(r.msg.linear.x), Num(r.msg.linear.y), Num(r.msg.linear.z),
                        Num(r.msg.angular.x), Num(r.msg.angular.y), Num(r.msg.angular.z) >>
        /\ (pc = "closed" /\ ScenarioRecords(RecordsOf(CurTopic))) =>
             CurFile.lines =
                 << column_names("vel_data"),
                    << Float(10, 0), Num(1), Num(0), Num(0), Num(0), Num(0), Num(0) >>,
                    << Float(10, 500000000), Num(2), Num(0), Num(0), Num(0), Num(0), Num(1) >>,
                    << Float(11, 0), Num(0), Num(0), Num(0), Num(0), Num(0), Num(0) >> >>

\* vel_data has written and closed the artifact of a topic holding the three
\* records of the scenario.
C6_Witness ==
    /\ op = "vel_data" /\ pc = "closed" /\ pos = 3
    /\ ScenarioRecords(RecordsOf(CurTopic))
    /\ Len(CurFile.lines) = 4

\* --------------------------------------------------------------------- C7
\* C7: the list an extraction operation builds and returns holds the output
\* paths of the inventory's topics of the requested type, one per topic, in
\* inventory order: the paths of the topics done so far while the call
\* runs, of all of them when it returns.
PathsOf(rows) == [j \in 1..Len(rows) |-> file_to_write(rows[j].Topics)]

C7_ListInInventoryOrder ==
    /\ InTopic => csvlist = PathsOf(SubSeq(MatchingTopics(op), 1, i - 1))
    /\ (pc = "returned" /\ op \in ExtractOps) =>
         retval = << PathsOf(MatchingTopics(op)) >>

\* A call has returned two different paths for an inventory that lists
\* "/c" before "/a/b".
C7_Witness ==
    /\ pc = "returned"
    /\ Len(topic_table) = 2
    /\ topic_table[1].Topics = <<"/", "c">>
    /\ retval = << << file_to_write(<<"/", "c">>),
                      file_to_write(<<"/", "a", "/", "b">>) >> >>

\* --------------------------------------------------------------------- C8
\* C8: an extraction operation called on an inventory without a topic of
\* its type raises nothing, opens no file, leaves the data folder as it
\* was, and returns the empty list.
C8_NoMatchingTopic ==
    (op \in ExtractOps /\ Len(MatchingTopics(op)) = 0) =>
        /\ pc \in { "loop", "returned" }
        /\ error = ""
        /\ log = <<>>
        /\ open_sinks = {}
        /\ files = InitFiles
        /\ pc = "returned" => retval = << <<>> >>

\* A call on a non-empty inventory without a topic of its type has
\* returned.
C8_Witness ==
    /\ op \in ExtractOps
    /\ pc = "returned"
    /\ Len(topic_table) > 0
    /\ Len(MatchingTopics(op)) = 0
    /\ retval = << <<>> >>

\* --------------------------------------------------------------------- C9
\* C9: when opening or writing the artifact of one topic fails, every other
\* matching topic of the call (with a sink of its own) still has its
\* artifact written in full: header and one row per record.
C9_FailureDoesNotAbortOthers ==
    (pc = "raised" /\ error = "OSError") =>
        \A j \in 1..Len(MatchingTopics(op)) :
            LET nm == MatchingTopics(op)[j].Topics
            IN  (j # i /\ file_to_write(nm) # file_to_write(CurTopic)) =>
                  /\ Len(files[file_to_write(nm)].lines) >= 1
                  /\ files[file_to_write(nm)].lines[1] = column_names(op)
                  /\ RowsMatch(files[file_to_write(nm)], RecordsOf(nm))

\* -------------------------------------------------------------------- C10
\* C10: compressed_images, pointcloud_data, animate_laser and
\* animate_pointcloud end with NotImplementedError, return nothing and leave
\* the data folder, the open sinks and the records consumed as they were.
C10_NotImplemented ==
    op \in UnimplementedOps =>
        /\ pc = "raised"
        /\ error = "NotImplementedError"
        /\ retval = <<>>
        /\ files = InitFiles
        /\ open_sinks = {}
        /\ log = <<>>
        /\ pos = 0
        /\ csvlist = <<>>

\* animate_pointcloud has been called on a bag that holds records.
C10_Witness ==
    /\ op = "animate_pointcloud"
    /\ pc = "raised"
    /\ error = "NotImplementedError"
    /\ Len(bag) > 0

\* -------------------------------------------------------------------- C11
\* C11: timeindex(df, inplace=True) returns the table it was given;
\* timeindex(df, inplace=False) returns another table and df has the
\* columns, the index and the values it had before the call.
C11_InplaceOrCopy ==
    (op = "timeindex" /\ pc # "idle") =>
        /\ Len(retval) = 1
        /\ args.inplace => retval[1] = 1
        /\ ~args.inplace => (retval[1] # 1 /\ frames[1] = args.df)

\* -------------------------------------------------------------------- C12
\* C12: timeindex on a table with a Time column, rows or none, ends without
\* error and returns a table with the same rows in the same order, indexed
\* by the instant of each row's Time, with the Time column and every other
\* column of the input kept and no ClockTime column.
C12_IndexedByTime ==
    (op = "timeindex" /\ pc # "idle") =>
        /\ error = ""
        /\ pc = "returned"
        /\ Len(retval) = 1
        /\ LET out == frames[retval[1]]
               df == args.df
           IN  /\ out.columns = df.columns
               /\ out.rows = df.rows
               /\ out.index_name = "Clock"
               /\ Len(out.index) = Len(df.rows)
               /\ \A r \in 1..Len(df.rows) :
                    out.index[r] = [tag |-> "datetime", s |-> "",
                                    n |-> column(df, "Time")[r].n,
                                    f |-> column(df, "Time")[r].f]
               /\ \A c \in 1..Len(out.columns) : out.columns[c] # "ClockTime"

\* -------------------------------------------------------------------- C13
\* The one-value std_msgs types the documentation of std_data lists, by the
\* names ROS gives them.
DocumentedStdTypes ==
    { "std_msgs/Bool", "std_msgs/Byte", "std_msgs/Float32", "std_msgs/Float64",
      "std_msgs/Int8", "std_msgs/Int16", "std_msgs/Int32", "std_msgs/UInt8",
      "std_msgs/UInt16", "std_msgs/UInt32", "std_msgs/UInt64" }

DocumentedStdTopics == SelectSeq(topic_table, LAMBDA e : e.Types \in DocumentedStdTypes)

\* C13: std_data extracts every topic of a documented std_msgs type: when it
\* returns, the list has one entry per such topic, and the artifact of each
\* such topic has the header Time, data.
C13_StdTypesExtracted ==
    (op = "std_data" /\ pc = "returned") =>
        /\ Len(retval[1]) = Len(DocumentedStdTopics)
        /\ \A j \in 1..Len(DocumentedStdTopics) :
             LET f == files[file_to_write(DocumentedStdTopics[j].Topics)]
             IN  /\ f.exists
                 /\ Len(f.lines) > 0
                 /\ f.lines[1] = << Str("Time"), Str("data") >>

\* -------------------------------------------------------------------- C14
\* t lies in the closed window [a, b].
TimeLE(a, b) == a.secs < b.secs \/ (a.secs = b.secs /\ a.nsecs <= b.nsecs)

InWindow(t, kwargs) ==
    kwargs.tstart = <<>> \/ (TimeLE(kwargs.tstart[1], t) /\ TimeLE(t, kwargs.tend[1]))

\* C14: when the caller gives a start/end window, the rows written for a
\* topic are exactly the topic's records whose time lies inside the window;
\* without a window they are all the records of the topic.  Stated when the
\* topic's sink has been closed.
C14_WindowRespected ==
    (pc = "closed" /\ op \in ExtractOps) =>
        RowsMatch(CurFile, SelectSeq(RecordsOf(CurTopic), LAMBDA r : InWindow(r.t, args)))

\* -------------------------------------------------------------------- C15
\* C15: in one extraction call the steps of a topic are open, header, rows,
\* close, in that order and without another topic's step between them: at
\* most one sink is open, and only while its topic is being written; a sink
\* is opened only at the start of the call or after the previous topic's
\* path was appended; a path is appended right after its sink was closed,
\* and the list holds exactly the appended paths; no sink is open when the
\* call has returned or failed.
C15_Sequential ==
    /\ Cardinality(open_sinks) <= 1
    /\ pc \in { "header", "rows" } => open_sinks = { file_to_write(CurTopic) }
    /\ pc \in { "idle", "loop", "closed", "returned", "raised" } => open_sinks = {}
    /\ \A k \in 1..Len(log) :
         LET e == log[k]
         IN  /\ e.ev \in { "open", "open failed" } => (k = 1 \/ log[k - 1].ev = "append")
             /\ e.ev = "header" => (k > 1 /\ log[k - 1] = [ev |-> "open", path |-> e.path])
             /\ e.ev = "row" =>
                  (k > 1 /\ log[k - 1].path = e.path /\ log[k - 1].ev \in { "header", "row" })
             /\ e.ev = "close" =>
                  (k > 1 /\ log[k - 1].path = e.path
                         /\ log[k - 1].ev \in { "open", "header", "row" })
             /\ e.ev = "append" => (k > 1 /\ log[k - 1] = [ev |-> "close", path |-> e.path])
    /\ csvlist = [j \in 1..Len(csvlist) |->
                    SelectSeq(log, LAMBDA e : e.ev = "append")[j].path]
    /\ Len(csvlist) = Len(SelectSeq(log, LAMBDA e : e.ev = "append"))

\* A call that wrote two topics to two paths, with rows, has returned.
C15_Witness ==
    /\ pc = "returned"
    /\ op \in ExtractOps
    /\ Len(retval[1]) = 2
    /\ retval[1][1] # retval[1][2]
    /\ Len(SelectSeq(log, LAMBDA e : e.ev = "row")) >= 2
    /\ open_sinks = {}

\* -------------------------------------------------------------------- C16
\* The topic name with every slash replaced by a hyphen.
Hyphened(nm) == [j \in 1..Len(nm) |-> IF nm[j] = "/" THEN "-" ELSE nm[j]]

NoDuplicate(sq) == \A j, k \in 1..Len(sq) : j # k => sq[j] # sq[k]

\* C16: the path of a topic is the data folder, a slash, the topic name with
\* every slash replaced by a hyphen, and ".csv"; distinct topics extracted
\* in one call have distinct paths, so that no path is opened twice in a
\* call (no artifact is overwritten by another topic) and the returned list
\* has no duplicate.
C16_OwnSink ==
    /\ \A nm \in TopicNames :
         file_to_write(nm) = <<"r", "/">> \o Hyphened(nm) \o <<".", "c", "s", "v">>
    /\ op \in ExtractOps =>
         /\ NoDuplicate(PathsOf(MatchingTopics(op)))
         /\ NoDuplicate(SelectSeq(log, LAMBDA e : e.ev = "open"))
         /\ pc = "returned" => NoDuplicate(retval[1])

====
